---- MODULE Spec2Model ----
(***************************************************************************)
(* Rolling record manager of the watchtower: the checkpoint store (save /  *)
(* recover over the checksum catalog), the submission scheduler and the    *)
(* manager's per-head-state step, as written in                            *)
(* src/shared/services/rewards/files.go.                                   *)
(***************************************************************************)
EXTENDS Integers, Sequences, FiniteSets, TLC

\* ------------------------------------------------------------------ bounds

\* Slots of the model are MinSlot..MaxSlot; the range crosses 9 -> 10 so that
\* slot numbers of one and of two decimal digits both occur in file names.
MinSlot == 9
MaxSlot == 10
\* How many lines the catalog may hold before no further save is started.
MaxLines == 2
\* How many faults (failed or torn writes, crashes, byte flips) one run may hold.
MaxFaults == 1

Slots == MinSlot..MaxSlot

\* ------------------------------------------------- configuration (beaconCfg)

SlotsPerEpoch == 2
SecondsPerSlot == 2
GenesisTime == 0

\* ---------------------------------------------------------- text and bytes

\* Text is a sequence of characters; a few fixed multi-character pieces
\* ("records", ".json.zst", the two-space separator) are kept as one element.
DecDigits == <<"0", "1", "2", "3", "4", "5", "6", "7", "8", "9">>
HexDigits == <<"0", "1", "2", "3", "4", "5", "6", "7", "8", "9", "a", "b", "c", "d", "e", "f">>

IsDecDigit(c) == \E d \in 1..10 : DecDigits[d] = c
IsHexDigit(c) == \E d \in 1..16 : HexDigits[d] = c
DecVal(c) == (CHOOSE d \in 1..10 : DecDigits[d] = c) - 1
HexVal(c) == (CHOOSE d \in 1..16 : HexDigits[d] = c) - 1

\* fmt.Sprintf("%d", n)
RECURSIVE FormatUint(_)
FormatUint(n) ==
    IF n < 10 THEN <<DecDigits[n + 1]>>
    ELSE FormatUint(n \div 10) \o <<DecDigits[(n % 10) + 1]>>

\* strconv.ParseUint(s, 10, 64) on a string of decimal digits: the value, most
\* significant digit first.  ok is FALSE for an empty string or a non-digit.
RECURSIVE ParseDigits(_, _)
ParseDigits(s, acc) ==
    IF s = <<>> THEN acc
    ELSE ParseDigits(Tail(s), acc * 10 + DecVal(Head(s)))

ParseUint(s) ==
    IF s # <<>> /\ \A i \in 1..Len(s) : IsDecDigit(s[i])
    THEN [ok |-> TRUE, val |-> ParseDigits(s, 0)]
    ELSE [ok |-> FALSE, val |-> 0]

\* hex.EncodeToString: two lowercase hex characters per byte.
RECURSIVE EncodeToString(_)
EncodeToString(bs) ==
    IF bs = <<>> THEN <<>>
    ELSE <<HexDigits[(Head(bs) \div 16) + 1], HexDigits[(Head(bs) % 16) + 1]>>
         \o EncodeToString(Tail(bs))

\* hex.DecodeString: fails on an odd length or on a character that is no hex digit.
RECURSIVE DecodePairs(_)
DecodePairs(s) ==
    IF s = <<>> THEN <<>>
    ELSE <<HexVal(s[1]) * 16 + HexVal(s[2])>> \o DecodePairs(SubSeq(s, 3, Len(s)))

DecodeString(s) ==
    IF Len(s) % 2 = 0 /\ \A i \in 1..Len(s) : IsHexDigit(s[i])
    THEN [ok |-> TRUE, bytes |-> DecodePairs(s)]
    ELSE [ok |-> FALSE, bytes |-> <<>>]

\* strings.Split(s, sep) for a separator kept as one element of the text.
RECURSIVE SplitFrom(_, _, _)
SplitFrom(s, sep, cur) ==
    IF s = <<>> THEN <<cur>>
    ELSE IF Head(s) = sep THEN <<cur>> \o SplitFrom(Tail(s), sep, <<>>)
    ELSE SplitFrom(Tail(s), sep, Append(cur, Head(s)))

Split(s, sep) == SplitFrom(s, sep, <<>>)

\* File contents are sequences of bytes, each in 0..ByteMod-1.
ByteMod == 16

\* sha512.Sum384 as a collision-free digest of the byte sequence and its
\* length, three bytes wide.
RECURSIVE PolyValue(_)
PolyValue(data) ==
    IF data = <<>> THEN 1
    ELSE Head(data) + ByteMod * PolyValue(Tail(data))

Sum384(data) ==
    LET n == PolyValue(data)
    IN  <<(n \div 65536) % 256, (n \div 256) % 256, n % 256>>

\* ------------------------------------------------------------ rolling record

\* rewards.RollingRecord: the attributes the manager reads and the store
\* serializes.  Folded counts the states folded in so far (the accumulated
\* totals, which depend on the path the record took).
NewRollingRecord(start) ==
    [StartSlot |-> start, LastProcessedSlot |-> start, PendingSlot |-> start, Folded |-> 0]

\* An update that moves lastProcessedSlot and leaves pendingSlot behind.
UpdateToStateUnordered(rec, slot) ==
    IF slot <= rec.LastProcessedSlot THEN rec
    ELSE [rec EXCEPT !.LastProcessedSlot = slot, !.Folded = rec.Folded + 1]

\* RollingRecord.UpdateToState: fold the state of `slot` in; folding a slot
\* that is already processed changes nothing.
UpdateToState(rec, slot) ==
    IF slot <= rec.LastProcessedSlot THEN rec
    ELSE [rec EXCEPT !.LastProcessedSlot = slot, !.PendingSlot = slot,
                     !.Folded = rec.Folded + 1]

\* RollingRecord.Serialize / rewards.DeserializeRollingRecord.
Serialize(rec) == <<rec.StartSlot, rec.LastProcessedSlot, rec.PendingSlot, rec.Folded>>

DeserializeRollingRecord(bytes) ==
    IF Len(bytes) = 4
    THEN [ok |-> TRUE,
          rec |-> <<[StartSlot |-> bytes[1], LastProcessedSlot |-> bytes[2],
                     PendingSlot |-> bytes[3], Folded |-> bytes[4]]>>]
    ELSE [ok |-> FALSE, rec |-> <<>>]

\* zstd Encoder.EncodeAll / Decoder.DecodeAll: a frame is the magic byte
\* followed by the payload; decoding fails on anything else.
EncodeAll(bytes) == <<15>> \o bytes

DecodeAll(frame) ==
    IF frame # <<>> /\ Head(frame) = 15
    THEN [ok |-> TRUE, bytes |-> Tail(frame)]
    ELSE [ok |-> FALSE, bytes |-> <<>>]

\* ------------------------------------------------------------------- state

VARIABLES
    Record,         \* r.Record, the manager's in-memory rolling record
    startSlot,      \* r.startSlot
    files,          \* the records folder: file name -> bytes of each checkpoint file
    checksumTable,  \* checksums.sha384: whether it exists, and its text split at "\n"
    pc,             \* "idle", a step of saveRecordToFile, or "returned" after a call
    saving,         \* saveRecordToFile's locals: filename and compressedBytes
    call,           \* the last completed call: operation, arguments, what it returned
    faults          \* environment faults so far

vars == <<Record, startSlot, files, checksumTable, pc, saving, call, faults>>

disk == <<files, checksumTable>>

\* ------------------------------------------------------------ return values

NoSaving == [filename |-> <<>>, compressedBytes |-> <<>>]

\* The snapshot of a call that was given none.
NoSnapshot ==
    [LatestReportableBalancesBlock |-> 0, BalancesBlock |-> 0, BalancesSubmitted |-> FALSE,
     HeaderTime |-> 0, BeaconSlotNumber |-> 0, IntervalStart |-> 0, IntervalDuration |-> 0,
     RewardsSubmitted |-> FALSE]

\* A completed call.  kind is "ok" (nil error), "record" (a record returned),
\* "error" (an error returned), "panic" (the process aborted) or "none".
\* startSlot and targetSlot are the arguments of a recover; filename is the
\* file a record was read from or saved to; finalized, balanceDue, rewardsDue,
\* earliest and started are what ProcessNewHeadState saw: the latest
\* finalized slot, the two checks, the gating slot, updateToSlot's result.
\* sn is the snapshot the call was given and fails the external call that
\* failed in it; balanceSlot and rewardsSlot are the slots the two checks
\* returned, checked how far the call got ("none", "balance", "rewards").
\* examined lists the indices at which a recover read the catalog's lines.
\* data and path are the serialized artifact and the fullPath of a
\* CompressedCid call, cid the identifier it returned, repeats whether the
\* call came straight after a successful call on the same artifact and path.
Returned(op, kind) ==
    [op |-> op, kind |-> kind, startSlot |-> 0, targetSlot |-> 0,
     rec |-> <<>>, filename |-> <<>>,
     finalized |-> 0, balanceDue |-> FALSE, rewardsDue |-> FALSE, earliest |-> 0,
     started |-> FALSE,
     sn |-> NoSnapshot, fails |-> "none", balanceSlot |-> 0, rewardsSlot |-> 0,
     checked |-> "none", examined |-> <<>>,
     data |-> <<>>, path |-> <<>>, cid |-> <<>>, repeats |-> FALSE]

NoCall == Returned("none", "none")

\* ------------------------------------------------------------------- names

\* cfg.Smartnode.GetRecordsPath()
RecordsPath == <<"records">>

\* filepath.Join(recordsPath, fmt.Sprintf(recordsFilenameFormat, slot, epoch))
RecordFilename(slot) ==
    RecordsPath \o <<"/">> \o FormatUint(slot) \o <<"-">>
        \o FormatUint(slot \div SlotsPerEpoch) \o <<".json.zst">>

\* The first index at or after i that holds no decimal digit.
RECURSIVE DigitsEnd(_, _)
DigitsEnd(s, i) ==
    IF i <= Len(s) /\ IsDecDigit(s[i]) THEN DigitsEnd(s, i + 1) ELSE i

\* recordsFilenamePattern, (?P<slot>\d+)\-(?P<epoch>\d+)\.json\.zst, matched at i.
PatternMatchesAt(s, i) ==
    LET j == DigitsEnd(s, i)
        k == DigitsEnd(s, j + 1)
    IN  /\ j > i
        /\ j <= Len(s)
        /\ s[j] = "-"
        /\ k > j + 1
        /\ k <= Len(s)
        /\ s[k] = ".json.zst"

\* getSlotFromFilename: the leftmost match of the (unanchored) pattern, its
\* slot group parsed as a decimal number.
getSlotFromFilename(filename) ==
    LET starts == {i \in 1..Len(filename) : PatternMatchesAt(filename, i)}
    IN  IF starts = {} THEN [ok |-> FALSE, val |-> 0]
        ELSE LET i == CHOOSE m \in starts : \A n \in starts : m <= n
             IN  ParseUint(SubSeq(filename, i, DigitsEnd(filename, i) - 1))

\* ------------------------------------------------------------------ recover

\* loadRecordFromFile: read the file, compare its SHA-384 with the expected
\* checksum, decompress, deserialize.
loadRecordFromFile(filename, expectedChecksum) ==
    IF filename \notin DOMAIN files
    THEN Returned("recover", "error")
    ELSE LET compressedBytes == files[filename]
             checksum == Sum384(compressedBytes)
         IN  IF expectedChecksum # checksum
             THEN Returned("recover", "error")
             ELSE LET decoded == DecodeAll(compressedBytes)
                      parsed == DeserializeRollingRecord(decoded.bytes)
                  IN  IF ~decoded.ok \/ ~parsed.ok
                      THEN Returned("recover", "error")
                      ELSE [Returned("recover", "record") EXCEPT
                                !.rec = parsed.rec, !.filename = filename]

\* The post statement of the scan loop of loadRecordFromDisk (line 606).
nextIndex(i) == i + 1

\* The scan loop of loadRecordFromDisk, from index i (counted from 0 as in the
\* code) of the catalog's lines.  Indexing lines[i] with i = len(lines) aborts
\* the process.
RECURSIVE scanFrom(_, _, _, _)
scanFrom(lines, i, start, target) ==
    IF i < 0
    THEN [Returned("recover", "record") EXCEPT !.rec = <<NewRollingRecord(start)>>]
    ELSE LET line == lines[i + 1]
             elems == Split(line, "  ")
             outcome ==
                 IF i >= Len(lines)
                 THEN Returned("recover", "panic")
                 ELSE IF line = <<>>
                 THEN scanFrom(lines, nextIndex(i), start, target)
                 ELSE IF Len(elems) # 2
                 THEN Returned("recover", "error")
                 ELSE LET slot == getSlotFromFilename(elems[2])
                          checksum == DecodeString(elems[1])
                      IN  IF ~slot.ok
                          THEN Returned("recover", "error")
                          ELSE IF slot.val > target \/ slot.val > start
                          THEN scanFrom(lines, nextIndex(i), start, target)
                          ELSE IF ~checksum.ok
                          THEN Returned("recover", "error")
                          ELSE loadRecordFromFile(elems[2], checksum.bytes)
         IN  [outcome EXCEPT !.examined = <<i>> \o @]

\* loadRecordFromDisk(startSlot, targetSlot)
loadRecordFromDisk(start, target) ==
    LET scanned ==
            IF ~checksumTable.exists
            THEN Returned("recover", "error")
            ELSE scanFrom(checksumTable.lines, Len(checksumTable.lines) - 1, start, target)
    IN  [scanned EXCEPT !.startSlot = start, !.targetSlot = target]

Recover(start, target) ==
    /\ pc = "idle"
    /\ call' = loadRecordFromDisk(start, target)
    /\ pc' = "returned"
    /\ UNCHANGED <<Record, startSlot, files, checksumTable, saving, faults>>

\* --------------------------------------------------------------------- save

\* The catalog line of a checkpoint, without its newline.
checksumLine(checksum, filename) == EncodeToString(checksum) \o <<"  ">> \o filename

\* The catalog's text after `line` and a newline are appended to it.
appendLine(lines, line) ==
    [lines EXCEPT ![Len(lines)] = @ \o line] \o << <<>> >>

\* How much of the catalog line WriteString gets written: all of it, or, when
\* the write fails, nothing, the checksum alone, the line up to the folder of
\* the file name, or the whole line but its newline.
AppendOutcomes == {"all", "none", "checksum", "folder", "line"}
AppendWritten(outcome, checksum, filename) ==
    IF outcome = "checksum" THEN EncodeToString(checksum)
    ELSE IF outcome = "folder" THEN EncodeToString(checksum) \o <<"  ">> \o RecordsPath
    ELSE IF outcome = "line" THEN checksumLine(checksum, filename)
    ELSE <<>>

\* saveRecordToFile, up to os.WriteFile opening (and truncating) the file.
SaveStart(serialized, opened) ==
    /\ pc = "idle"
    /\ Len(checksumTable.lines) <= MaxLines
    /\ LET compressedBytes == EncodeAll(Serialize(Record))
           filename == RecordFilename(Record.LastProcessedSlot)
       IN  IF ~serialized \/ ~opened
           THEN /\ faults < MaxFaults
                /\ faults' = faults + 1
                /\ call' = Returned("save", "error")
                /\ pc' = "returned"
                /\ UNCHANGED <<files, saving>>
           ELSE /\ files' = [n \in DOMAIN files \cup {filename} |->
                                IF n = filename THEN <<>> ELSE files[n]]
                /\ pc' = "save_write"
                /\ saving' = [filename |-> filename, compressedBytes |-> compressedBytes]
                /\ call' = NoCall
                /\ UNCHANGED faults
    /\ UNCHANGED <<Record, startSlot, checksumTable>>

\* How many bytes os.WriteFile gets written: all of them, or, when the write
\* fails, none or a part.
WriteOutcomes == {"all", "none", "part"}
Written(outcome, bytes) ==
    IF outcome = "all" THEN Len(bytes)
    ELSE IF outcome = "none" THEN 0
    ELSE Len(bytes) \div 2

\* os.WriteFile writing the bytes.
SaveWrite(outcome) ==
    /\ pc = "save_write"
    /\ IF outcome = "all"
       THEN /\ files' = [files EXCEPT ![saving.filename] = saving.compressedBytes]
            /\ pc' = "save_catalog"
            /\ UNCHANGED <<saving, call, faults>>
       ELSE /\ faults < MaxFaults
            /\ faults' = faults + 1
            /\ files' = [files EXCEPT ![saving.filename] =
                            SubSeq(saving.compressedBytes, 1,
                                   Written(outcome, saving.compressedBytes))]
            /\ pc' = "returned"
            /\ saving' = NoSaving
            /\ call' = Returned("save", "error")
    /\ UNCHANGED <<Record, startSlot, checksumTable>>

\* sha512.Sum384, then os.OpenFile(checksumFilename, O_APPEND|O_CREATE|O_RDWR).
SaveOpenCatalog(opened) ==
    /\ pc = "save_catalog"
    /\ IF opened
       THEN /\ checksumTable' =
                   IF checksumTable.exists THEN checksumTable
                   ELSE [exists |-> TRUE, lines |-> << <<>> >>]
            /\ pc' = "save_append"
            /\ UNCHANGED <<saving, call, faults>>
       ELSE /\ faults < MaxFaults
            /\ faults' = faults + 1
            /\ pc' = "returned"
            /\ saving' = NoSaving
            /\ call' = Returned("save", "error")
            /\ UNCHANGED checksumTable
    /\ UNCHANGED <<Record, startSlot, files>>

\* checksumFile.WriteString(checksumLine), its result dropped; return nil.
SaveAppend(outcome) ==
    /\ pc = "save_append"
    /\ IF outcome = "all"
       THEN /\ checksumTable' = [checksumTable EXCEPT !.lines =
                   appendLine(@, checksumLine(Sum384(saving.compressedBytes), saving.filename))]
            /\ UNCHANGED faults
       ELSE /\ faults < MaxFaults
            /\ faults' = faults + 1
            /\ checksumTable' = [checksumTable EXCEPT !.lines[Len(checksumTable.lines)] =
                   @ \o AppendWritten(outcome, Sum384(saving.compressedBytes), saving.filename)]
    /\ pc' = "returned"
    /\ saving' = NoSaving
    /\ call' = [Returned("save", "ok") EXCEPT !.filename = saving.filename]
    /\ UNCHANGED <<Record, startSlot, files>>

\* ---------------------------------------------------------------- scheduler

\* Go's integer division, which truncates toward zero.
TruncDiv(a, b) == IF a >= 0 THEN a \div b ELSE -((-a) \div b)

\* What a scheduler check returns: (due, slot, err).
Check(due, slot, err) == [due |-> due, slot |-> slot, err |-> err]

\* A reportable block counted as submitted although it is newer only when
\* it is older than the last balances block.
balancesUpToDateStrict(blockNumber, balancesBlock) == blockNumber < balancesBlock

\* Line 456: no submission is needed for a reportable block that is not newer
\* than the last balances block.
balancesUpToDate(blockNumber, balancesBlock) == blockNumber <= balancesBlock

\* The block's slot rounded up instead of down.
slotNumberCeil(timeSinceGenesis) ==
    (timeSinceGenesis + SecondsPerSlot - 1) \div SecondsPerSlot

\* Line 481: uint64(timeSinceGenesis.Seconds()) / eth2Config.SecondsPerSlot.
slotNumber(timeSinceGenesis) == timeSinceGenesis \div SecondsPerSlot

\* A balance check that never looks the submission flag up.
isNetworkBalanceUpdateRequiredUnflagged(sn, fails) ==
    LET blockNumber == sn.LatestReportableBalancesBlock
        timeSinceGenesis == sn.HeaderTime - GenesisTime
    IN  IF balancesUpToDate(blockNumber, sn.BalancesBlock) THEN Check(FALSE, 0, FALSE)
        ELSE IF fails = "header" THEN Check(FALSE, 0, TRUE)
        ELSE Check(TRUE, slotNumber(timeSinceGenesis), FALSE)

\* isNetworkBalanceUpdateRequired.  `fails` names the external call of this
\* invocation that fails, if any.
isNetworkBalanceUpdateRequired(sn, fails) ==
    LET blockNumber == sn.LatestReportableBalancesBlock
        timeSinceGenesis == sn.HeaderTime - GenesisTime
    IN  IF balancesUpToDate(blockNumber, sn.BalancesBlock) THEN Check(FALSE, 0, FALSE)
        ELSE IF fails = "balancesFlag" THEN Check(FALSE, 0, TRUE)
        ELSE IF sn.BalancesSubmitted THEN Check(FALSE, 0, FALSE)
        ELSE IF fails = "header" THEN Check(FALSE, 0, TRUE)
        ELSE Check(TRUE, slotNumber(timeSinceGenesis), FALSE)

\* The first slot of the epoch instead of its last.
firstSlotOfEpoch(targetSlot) == (targetSlot \div SlotsPerEpoch) * SlotsPerEpoch

\* Lines 518-519: the target slot becomes the last one in its epoch.
lastSlotOfEpoch(targetSlot) ==
    LET targetSlotEpoch == targetSlot \div SlotsPerEpoch
    IN  targetSlotEpoch * SlotsPerEpoch + (SlotsPerEpoch - 1)

\* isRewardsIntervalSubmissionRequired.
isRewardsIntervalSubmissionRequired(sn, fails) ==
    LET startTime == sn.IntervalStart
        intervalTime == sn.IntervalDuration
        stateTime == GenesisTime + SecondsPerSlot * sn.BeaconSlotNumber
        timeSinceStart == stateTime - startTime
        intervalsPassed == TruncDiv(timeSinceStart, intervalTime)
        endTime == startTime + intervalTime * intervalsPassed
        totalTimespan == endTime - GenesisTime
        targetSlot == (totalTimespan + SecondsPerSlot - 1) \div SecondsPerSlot
    IN  IF intervalsPassed = 0 THEN Check(FALSE, 0, FALSE)
        ELSE IF fails = "rewardsFlag" THEN Check(FALSE, 0, TRUE)
        ELSE IF sn.RewardsSubmitted THEN Check(FALSE, 0, FALSE)
        ELSE Check(TRUE, lastSlotOfEpoch(targetSlot), FALSE)

\* The snapshots a head state may present.  Block and state times lie at or
\* after genesis and interval durations are positive.  A field the checks do
\* not read for a snapshot (the submission flag and the header when the
\* reportable block is not newer, the rewards flag when no interval has
\* passed) keeps one value, since it cannot change what happens.
Snapshots ==
    {sn \in [LatestReportableBalancesBlock : {1, 2},
             BalancesBlock : {1},
             BalancesSubmitted : BOOLEAN,
             HeaderTime : {SecondsPerSlot * MinSlot + 1, SecondsPerSlot * MaxSlot},
             BeaconSlotNumber : {MaxSlot},
             IntervalStart : {SecondsPerSlot * MinSlot - 4, SecondsPerSlot * MinSlot - 3,
                              SecondsPerSlot * MinSlot, SecondsPerSlot * MaxSlot + 4},
             IntervalDuration : {4},
             RewardsSubmitted : BOOLEAN] :
        /\ sn.LatestReportableBalancesBlock <= sn.BalancesBlock
              => ~sn.BalancesSubmitted /\ sn.HeaderTime = SecondsPerSlot * MaxSlot
        /\ sn.BalancesSubmitted => sn.HeaderTime = SecondsPerSlot * MaxSlot
        /\ sn.IntervalStart = SecondsPerSlot * MinSlot => ~sn.RewardsSubmitted}

\* The snapshots the manager is driven with while the checkpoint store is in
\* play: no submission flag set and one block time, so that each verdict of
\* the two checks (nothing due, either obligation, both) comes from one
\* snapshot.
HeadSnapshots ==
    {sn \in Snapshots :
        /\ ~sn.BalancesSubmitted
        /\ ~sn.RewardsSubmitted
        /\ sn.HeaderTime = SecondsPerSlot * MaxSlot
        /\ sn.IntervalStart \in {SecondsPerSlot * MinSlot - 3, SecondsPerSlot * MinSlot}}

\* The external calls of one invocation, of which at most the first failing
\* one matters: the beacon client's finalized block, the two submission-flag
\* lookups, the block header, the state of a slot, the record's update.
\* "state" is the provider's call failing, "noBlock" a slot without a block.
FailurePoints ==
    {"none", "finalized", "balancesFlag", "header", "rewardsFlag", "state", "noBlock", "update"}

\* GetStateAtBeaconSlot: whether it returns a state.
\* It fails when the Beacon block cannot be fetched and when the slot has none.
GetStateAtBeaconSlot(fails) == fails # "state" /\ fails # "noBlock"

\* r.mgr.GetStateForSlot: the state of a slot, obtained from the block of
\* that slot; it fails when GetStateAtBeaconSlot does.
GetStateForSlot(fails) == GetStateAtBeaconSlot(fails)

\* The failures the manager meets while the checkpoint store is in play: none,
\* or the state of the slot cannot be fetched.
HeadFailures == {"none", "state"}

\* ------------------------------------------------------------------ manager

\* An update that folds the slot in before it looks at the fetch's error.
updateToSlotEager(rec, slot, fails) ==
    IF rec.PendingSlot >= slot
    THEN [rec |-> rec, started |-> FALSE, err |-> FALSE]
    ELSE IF ~GetStateForSlot(fails) \/ fails = "update"
    THEN [rec |-> UpdateToState(rec, slot), started |-> FALSE, err |-> TRUE]
    ELSE [rec |-> UpdateToState(rec, slot), started |-> TRUE, err |-> FALSE]

\* An update that skips only slots below the pending one.
updateToSlotStrict(rec, slot, fails) ==
    IF rec.PendingSlot > slot
    THEN [rec |-> rec, started |-> FALSE, err |-> FALSE]
    ELSE IF ~GetStateForSlot(fails) \/ fails = "update"
    THEN [rec |-> rec, started |-> FALSE, err |-> TRUE]
    ELSE [rec |-> UpdateToState(rec, slot), started |-> TRUE, err |-> FALSE]

\* updateToSlot: (the record afterwards, whether an update started, err).
updateToSlot(rec, slot, fails) ==
    IF rec.PendingSlot >= slot
    THEN [rec |-> rec, started |-> FALSE, err |-> FALSE]
    ELSE IF ~GetStateForSlot(fails) \/ fails = "update"
    THEN [rec |-> rec, started |-> FALSE, err |-> TRUE]
    ELSE [rec |-> UpdateToState(rec, slot), started |-> TRUE, err |-> FALSE]

\* The later of the two target slots when both obligations are due.
earliestRequiredSlotLatest(bal, rew) ==
    IF bal.due /\ rew.due
    THEN (IF bal.slot > rew.slot THEN bal.slot ELSE rew.slot)
    ELSE IF bal.due THEN bal.slot
    ELSE IF rew.due THEN rew.slot
    ELSE 0

\* The slot that gates progress (lines 408-419).
earliestRequiredSlot(bal, rew) ==
    IF bal.due /\ rew.due
    THEN (IF bal.slot < rew.slot THEN bal.slot ELSE rew.slot)
    ELSE IF bal.due THEN bal.slot
    ELSE IF rew.due THEN rew.slot
    ELSE 0

\* A manager that advances to the finalized slot although an obligation is due.
obligationDueAdvancing(rec, finalized, earliest) == UpdateToState(rec, finalized)

\* What ProcessNewHeadState does once an obligation is due (lines 421-425):
\* it logs when the required slot is not finalized yet, and does nothing else.
obligationDue(rec, finalized, earliest) == rec

\* ProcessNewHeadState(state)
ProcessNewHeadState(sn, finalized, fails) ==
    /\ pc = "idle"
    /\ LET bal == isNetworkBalanceUpdateRequired(sn, fails)
           rew == isRewardsIntervalSubmissionRequired(sn, fails)
           upd == updateToSlot(Record, finalized, fails)
           given == [Returned("process", "error") EXCEPT !.sn = sn, !.fails = fails]
           afterBalance == [given EXCEPT !.finalized = finalized, !.checked = "balance",
                                         !.balanceDue = bal.due, !.balanceSlot = bal.slot]
           afterRewards == [afterBalance EXCEPT !.checked = "rewards",
                                                !.rewardsDue = rew.due, !.rewardsSlot = rew.slot]
           seen == [afterRewards EXCEPT !.kind = "ok",
                                        !.earliest = earliestRequiredSlot(bal, rew)]
       IN  IF fails = "finalized"
           THEN call' = given /\ UNCHANGED Record
           ELSE IF bal.err
           THEN call' = afterBalance /\ UNCHANGED Record
           ELSE IF rew.err
           THEN call' = afterRewards /\ UNCHANGED Record
           ELSE IF ~bal.due /\ ~rew.due
           THEN /\ Record' = upd.rec
                /\ call' = IF upd.err THEN [seen EXCEPT !.kind = "error"]
                           ELSE [seen EXCEPT !.started = upd.started]
           ELSE /\ Record' = obligationDue(Record, finalized, seen.earliest)
                /\ call' = seen
    /\ pc' = "returned"
    /\ UNCHANGED <<startSlot, files, checksumTable, saving, faults>>

\* generateRecordForSlot(slot)
GenerateRecordForSlot(slot, fails) ==
    /\ pc = "idle"
    /\ LET loaded == [loadRecordFromDisk(startSlot, slot) EXCEPT
                          !.op = "generate", !.fails = fails]
           failed == [Returned("generate", "error") EXCEPT
                          !.startSlot = startSlot, !.targetSlot = slot, !.fails = fails]
       IN  call' =
               IF ~GetStateForSlot(fails) THEN failed
               ELSE IF loaded.kind # "record" THEN loaded
               ELSE IF fails = "update" THEN failed
               ELSE [loaded EXCEPT !.rec = <<UpdateToState(loaded.rec[1], slot)>>]
    /\ pc' = "returned"
    /\ UNCHANGED <<Record, startSlot, files, checksumTable, saving, faults>>

\* NewRollingRecordManager on a records folder that exists: a new process,
\* started when the manager is idle or after a panic ended the old one.
Restart(start) ==
    /\ pc = "idle" \/ (pc = "returned" /\ call.kind = "panic")
    /\ pc' = "idle"
    /\ Record' = NewRollingRecord(start)
    /\ startSlot' = start
    /\ call' = NoCall
    /\ UNCHANGED <<files, checksumTable, saving, faults>>

\* The caller takes what the call returned; the manager is idle again.
Return ==
    /\ pc = "returned"
    /\ call.kind # "panic"
    /\ pc' = "idle"
    /\ call' = NoCall
    /\ UNCHANGED <<Record, startSlot, files, checksumTable, saving, faults>>

Init ==
    /\ startSlot \in Slots
    /\ Record = NewRollingRecord(startSlot)
    /\ files = <<>>
    /\ checksumTable = [exists |-> FALSE, lines |-> <<>>]
    /\ pc = "idle"
    /\ saving = NoSaving
    /\ call = NoCall
    /\ faults = 0

Next ==
    \/ \E start \in Slots, target \in Slots : Recover(start, target)
    \/ \E serialized \in BOOLEAN, opened \in BOOLEAN : SaveStart(serialized, opened)
    \/ \E outcome \in WriteOutcomes : SaveWrite(outcome)
    \/ \E opened \in BOOLEAN : SaveOpenCatalog(opened)
    \/ \E outcome \in AppendOutcomes : SaveAppend(outcome)
    \/ \E start \in Slots : Restart(start)
    \/ \E sn \in HeadSnapshots, finalized \in Slots, fails \in HeadFailures :
           ProcessNewHeadState(sn, finalized, fails)
    \/ \E slot \in Slots, fails \in {"none", "state", "noBlock", "update"} :
           GenerateRecordForSlot(slot, fails)
    \/ Return

Spec == Init /\ [][Next]_vars

\* The manager driven with every snapshot, the checkpoint store left alone.
NextSched ==
    \/ \E start \in Slots : Restart(start)
    \/ \E sn \in Snapshots, finalized \in Slots, fails \in FailurePoints :
           ProcessNewHeadState(sn, finalized, fails)
    \/ Return

SpecSched == Init /\ [][NextSched]_vars

\* ------------------------------------------------------------------- faults

\* The process dies inside saveRecordToFile; the disk stays as the save left
\* it, and a new process constructs its manager.
Crash(start) ==
    /\ pc \in {"save_write", "save_catalog", "save_append"}
    /\ faults < MaxFaults
    /\ faults' = faults + 1
    /\ pc' = "idle"
    /\ saving' = NoSaving
    /\ Record' = NewRollingRecord(start)
    /\ startSlot' = start
    /\ call' = Returned("crash", "none")
    /\ UNCHANGED <<files, checksumTable>>

NextCrash ==
    \/ Next
    \/ \E start \in Slots : Crash(start)

SpecCrash == Init /\ [][NextCrash]_vars

\* One byte of a stored checkpoint file is altered behind the manager's back.
EnvFlipByte(name, i) ==
    /\ pc = "idle"
    /\ faults < MaxFaults
    /\ name \in DOMAIN files
    /\ i \in 1..Len(files[name])
    /\ faults' = faults + 1
    /\ files' = [files EXCEPT ![name][i] = (@ + 1) % ByteMod]
    /\ call' = NoCall
    /\ UNCHANGED <<Record, startSlot, checksumTable, pc, saving>>

NextDisk ==
    \/ Next
    \/ \E slot \in Slots, i \in 1..5 : EnvFlipByte(RecordFilename(slot), i)

SpecDisk == Init /\ [][NextDisk]_vars

\* ------------------------------------------------------------ LocalFile

\* config.RewardsTreeIpfsExtension
RewardsTreeIpfsExtension == <<".zst">>

\* filepath.Base: the elements after the last separator.
RECURSIVE Base(_)
Base(path) ==
    IF path = <<>> \/ path[Len(path)] = "/" THEN <<>>
    ELSE Base(SubSeq(path, 1, Len(path) - 1)) \o <<path[Len(path)]>>

\* singleFileDirIPFSCid: the identifier of a directory whose only entry is
\* the file of that name holding those bytes.
singleFileDirIPFSCid(bytes, name) == <<[Name |-> name, Hash |-> Sum384(bytes)]>>

\* os.WriteFile fails to open the file, or opens it and writes all, none or
\* a part of the bytes.
WriteFileOutcomes == WriteOutcomes \cup {"unopened"}

\* An os.WriteFile that adds the bytes to what the file already holds.
WriteFileAppend(fs, name, bytes, outcome) ==
    IF outcome = "unopened" THEN fs
    ELSE [n \in DOMAIN fs \cup {name} |->
             IF n = name
             THEN (IF name \in DOMAIN fs THEN fs[name] ELSE <<>>)
                      \o SubSeq(bytes, 1, Written(outcome, bytes))
             ELSE fs[n]]

\* os.WriteFile(name, bytes, 0644): the file is created or truncated, then
\* the bytes are written.
WriteFile(fs, name, bytes, outcome) ==
    IF outcome = "unopened" THEN fs
    ELSE [n \in DOMAIN fs \cup {name} |->
             IF n = name THEN SubSeq(bytes, 1, Written(outcome, bytes)) ELSE fs[n]]

\* The serialized artifacts and the paths of the LocalFiles.
Artifacts == {<<1>>, <<1, 2>>, <<2, 1>>}
ArtifactPaths == {<<"rewards", "/", "a.json">>, <<"rewards", "/", "b.json">>}

\* The calls of CompressedCid that can fail before the file is written.
CidFailures == {"none", "serialize", "cid"}

\* LocalFile.CompressedCid on the LocalFile of that artifact and fullPath.
CompressedCid(data, fullPath, fails, outcome) ==
    /\ pc = "idle" \/ (pc = "returned" /\ call.op = "cid")
    /\ LET compressedBytes == EncodeAll(data)
           filename == fullPath \o RewardsTreeIpfsExtension
           c == singleFileDirIPFSCid(compressedBytes, Base(filename))
           this == [Returned("cid", "error") EXCEPT
                       !.data = data, !.path = fullPath, !.fails = fails,
                       !.repeats = /\ pc = "returned"
                                   /\ call.kind = "ok"
                                   /\ call.data = data
                                   /\ call.path = fullPath]
       IN  IF fails # "none"
           THEN /\ faults < MaxFaults
                /\ faults' = faults + 1
                /\ call' = this
                /\ UNCHANGED files
           ELSE /\ files' = WriteFile(files, filename, compressedBytes, outcome)
                /\ IF outcome # "all"
                   THEN /\ faults < MaxFaults
                        /\ faults' = faults + 1
                        /\ call' = [this EXCEPT !.fails = "write"]
                   ELSE /\ call' = [this EXCEPT !.kind = "ok", !.cid = c,
                                                !.filename = filename]
                        /\ UNCHANGED faults
    /\ pc' = "returned"
    /\ UNCHANGED <<Record, startSlot, checksumTable, saving>>

\* The artifact wrapper called again and again, its results taken or not.
NextCid ==
    \/ \E data \in Artifacts, fullPath \in ArtifactPaths,
          fails \in CidFailures, outcome \in WriteFileOutcomes :
           CompressedCid(data, fullPath, fails, outcome)
    \/ Return

SpecCid == Init /\ [][NextCid]_vars

\* ------------------------------------------------------- catalog vocabulary

\* A line that holds a checksum and the file name of a checkpoint.
WellFormed(line) ==
    /\ Len(Split(line, "  ")) = 2
    /\ \E s \in 0..(MaxSlot + 1) : Split(line, "  ")[2] = RecordFilename(s)
\* The catalog's entries: the indices of its well-formed lines, in creation
\* order; and the indices of the lines that are neither blank nor well-formed.
EntryLines == {i \in 1..Len(checksumTable.lines) : WellFormed(checksumTable.lines[i])}
MalformedLines ==
    {i \in 1..Len(checksumTable.lines) :
        checksumTable.lines[i] # <<>> /\ ~WellFormed(checksumTable.lines[i])}
EntryChecksum(i) == Split(checksumTable.lines[i], "  ")[1]
EntryFilename(i) == Split(checksumTable.lines[i], "  ")[2]
\* The slot embedded in an entry's file name.
EntrySlot(i) == CHOOSE s \in 0..(MaxSlot + 1) : EntryFilename(i) = RecordFilename(s)
\* The entry's file is there and its bytes hash to the recorded checksum.
EntryIntact(i) ==
    /\ EntryFilename(i) \in DOMAIN files
    /\ EncodeToString(Sum384(files[EntryFilename(i)])) = EntryChecksum(i)
\* The entries whose slot exceeds neither bound, and the newest of a set.
Candidates(start, target) ==
    {i \in EntryLines : EntrySlot(i) <= start /\ EntrySlot(i) <= target}
Newest(S) == CHOOSE i \in S : \A j \in S : j <= i

Recovered == pc = "returned" /\ call.op = "recover"
Processed == pc = "returned" /\ call.op = "process"
AtRest == pc \in {"idle", "returned"}

\* ------------------------------------------------------------------- claims

\* C1 (checksum integrity): a recover never returns a record read from a
\* file whose SHA-384 differs from the checksum of the catalog entry it was
\* selected by, and when the file of the selected entry (the newest entry
\* within both bounds) has been altered, the recover fails with an error.
C1_ChecksumIntegrity ==
    Recovered =>
        /\ (call.kind = "record" /\ call.filename # <<>>) =>
              \E i \in EntryLines :
                  EntryFilename(i) = call.filename /\ EntryIntact(i)
        /\ \A i \in EntryLines :
              (/\ Candidates(call.startSlot, call.targetSlot) # {}
               /\ i = Newest(Candidates(call.startSlot, call.targetSlot))
               /\ EntryFilename(i) \in DOMAIN files
               /\ ~EntryIntact(i))
              => call.kind = "error"

\* C2 (recovery selection): a recover loads the newest catalog entry whose
\* slot exceeds neither targetSlot nor startSlot.
C2_RecoverySelection ==
    (/\ Recovered
     /\ faults = 0
     /\ Candidates(call.startSlot, call.targetSlot) # {})
    => /\ call.kind = "record"
       /\ call.filename =
              EntryFilename(Newest(Candidates(call.startSlot, call.targetSlot)))

\* C3 (no candidate means a fresh record): with a catalog that is empty or
\* whose entries all exceed a bound, a recover returns, without error, a
\* fresh record starting at startSlot.
C3_NoCandidateFresh ==
    (/\ Recovered
     /\ checksumTable.exists
     /\ Candidates(call.startSlot, call.targetSlot) = {})
    => /\ call.kind = "record"
       /\ call.rec = <<NewRollingRecord(call.startSlot)>>

\* A stored file that is a completely written checkpoint.
Complete(bytes) == DecodeAll(bytes).ok /\ DeserializeRollingRecord(DecodeAll(bytes).bytes).ok

\* C4 (write ordering under crashes): after a crash at any point inside a
\* save, no catalog entry names a missing or incomplete file.
C4_CrashLeavesCatalogSound ==
    call.op = "crash" =>
        \A i \in EntryLines :
            EntryFilename(i) \in DOMAIN files /\ Complete(files[EntryFilename(i)])

\* C5 (catalog invariant): after any sequence of saves, every catalog entry
\* names an existing file whose bytes hash to the entry's checksum.
C5_CatalogInvariant ==
    (AtRest /\ faults = 0) => \A i \in EntryLines : EntryIntact(i)

\* C6 (save/recover round trip): after a save of a record with
\* lastProcessedSlot s and no later save, a recover whose bounds are both at
\* least s returns that record: the one the stored bytes serialize.
C6_SaveRecoverRoundTrip ==
    (/\ Recovered
     /\ faults = 0
     /\ EntryLines # {}
     /\ EntrySlot(Newest(EntryLines)) <= call.startSlot
     /\ EntrySlot(Newest(EntryLines)) <= call.targetSlot)
    => /\ call.kind = "record"
       /\ call.rec # <<>>
       /\ call.rec[1].LastProcessedSlot = EntrySlot(Newest(EntryLines))
       /\ EncodeAll(Serialize(call.rec[1])) = files[EntryFilename(Newest(EntryLines))]

\* The catalog entries of the checkpoint of a slot.
EntriesOfSlot(slot) == {i \in EntryLines : EntryFilename(i) = RecordFilename(slot)}
Checkpointed(slot) == RecordFilename(slot) \in DOMAIN files /\ EntriesOfSlot(slot) # {}
NothingDue == ~call.balanceDue /\ ~call.rewardsDue

\* C7 (idempotent checkpointing): an invocation with nothing due that finds
\* the record already advanced to the latest finalized slot by an earlier
\* invocation leaves exactly one checkpoint file and one catalog entry for
\* that slot.
C7_IdempotentCheckpointing ==
    (/\ Processed
     /\ call.kind = "ok"
     /\ NothingDue
     /\ ~call.started
     /\ Record.Folded > 0
     /\ Record.LastProcessedSlot = call.finalized)
    => /\ RecordFilename(call.finalized) \in DOMAIN files
       /\ Cardinality(EntriesOfSlot(call.finalized)) = 1

\* C8 (steady-state path): an invocation with nothing due and a finalized
\* slot beyond the record's pending slot, on successful return, has advanced
\* the record to that slot and persisted a checkpoint for it.
C8_SteadyStatePersists ==
    (/\ Processed
     /\ call.kind = "ok"
     /\ NothingDue
     /\ call.started)
    => /\ Record.LastProcessedSlot = call.finalized
       /\ Checkpointed(call.finalized)

\* C9 (actionable obligation path): an invocation with an obligation due and
\* the gating slot T finalized builds a record whose lastProcessedSlot is T,
\* persists it as a checkpoint and hands it on.
C9_ObligationPathBuildsRecord ==
    (/\ Processed
     /\ call.kind = "ok"
     /\ ~NothingDue
     /\ call.finalized >= call.earliest)
    => /\ call.rec # <<>>
       /\ call.rec[1].LastProcessedSlot = call.earliest
       /\ Checkpointed(call.earliest)

\* An invocation that found an obligation due whose gating slot is not
\* finalized yet.
Waiting(c) == c.op = "process" /\ (c.balanceDue \/ c.rewardsDue) /\ c.finalized < c.earliest

\* C10 (not-yet-actionable obligation): such an invocation changes neither
\* the in-memory record nor the checkpoint files nor the catalog, and
\* reports no error.
C10_WaitingTakesNoAction ==
    [][(pc = "idle" /\ pc' = "returned" /\ Waiting(call'))
        => (/\ Record' = Record
            /\ files' = files
            /\ checksumTable' = checksumTable
            /\ call'.kind = "ok")]_vars

\* C10's case: an invocation waited although the record lagged the finalized slot.
C10_Witness ==
    /\ pc = "returned"
    /\ Waiting(call)
    /\ call.kind = "ok"
    /\ Record.PendingSlot < call.finalized

\* -------------------------------------------------------- scheduler claims

\* An invocation of ProcessNewHeadState has just returned.
ProcessStep == pc = "idle" /\ pc' = "returned" /\ call'.op = "process"
\* The smaller of two slots.
MinOf(a, b) == CHOOSE m \in {a, b} : \A n \in {a, b} : m <= n
\* The slot that gates an invocation that found an obligation due.
Gate(c) ==
    IF c.balanceDue /\ c.rewardsDue THEN MinOf(c.balanceSlot, c.rewardsSlot)
    ELSE IF c.balanceDue THEN c.balanceSlot
    ELSE c.rewardsSlot

\* C11 (earliest target gates): the gating slot of an invocation is the
\* smaller of the two target slots when both obligations are due and the due
\* obligation's target when one is; while the gating slot is not finalized
\* the invocation does not advance the record beyond it.
C11_EarliestTargetGates ==
    [][(/\ ProcessStep
        /\ call'.kind = "ok"
        /\ (call'.balanceDue \/ call'.rewardsDue))
       => /\ call'.earliest = Gate(call')
          /\ call'.finalized < Gate(call')
                => ~(/\ Record'.LastProcessedSlot > Record.LastProcessedSlot
                     /\ Record'.LastProcessedSlot > Gate(call'))]_vars

\* C11's case: both obligations due, the balance target gating and not yet
\* finalized, the rewards target later.
C11_Witness ==
    /\ Processed
    /\ call.kind = "ok"
    /\ call.balanceDue /\ call.rewardsDue
    /\ call.balanceSlot < call.rewardsSlot
    /\ call.earliest = call.balanceSlot
    /\ call.finalized < call.earliest

\* The balance check of the call ran and returned no error; likewise the
\* rewards check.
BalanceChecked(c) == c.checked = "rewards" \/ (c.checked = "balance" /\ c.kind # "error")
RewardsChecked(c) == c.checked = "rewards" /\ ~(c.kind = "error" /\ c.fails = "rewardsFlag")

\* C12 (no double submission): an invocation on a snapshot whose submission
\* flag is set for the reportable balances block reports the balance update
\* as not due, one whose flag is set for the reward index reports the
\* rewards interval as not due, and neither builds a record.
C12_NoDoubleSubmission ==
    Processed =>
        /\ call.sn.BalancesSubmitted => (~call.balanceDue /\ call.balanceSlot = 0)
        /\ call.sn.RewardsSubmitted => (~call.rewardsDue /\ call.rewardsSlot = 0)
        /\ (call.sn.BalancesSubmitted \/ call.sn.RewardsSubmitted) => call.rec = <<>>

\* C12's case: both flags set on a snapshot whose reportable block is newer
\* and whose interval has passed, and the invocation found nothing due.
C12_Witness ==
    /\ Processed
    /\ call.kind = "ok"
    /\ call.sn.BalancesSubmitted /\ call.sn.RewardsSubmitted
    /\ call.sn.LatestReportableBalancesBlock > call.sn.BalancesBlock
    /\ call.sn.IntervalStart + call.sn.IntervalDuration
           <= GenesisTime + SecondsPerSlot * call.sn.BeaconSlotNumber
    /\ ~call.balanceDue /\ ~call.rewardsDue

\* The reportable block is newer than the last balances block and its
\* submission flag is not set.
BalanceUpdateNeeded(sn) ==
    sn.LatestReportableBalancesBlock > sn.BalancesBlock /\ ~sn.BalancesSubmitted

\* C13 (balance-update due predicate): the balance check reports due exactly
\* when the reportable block is newer than the last balances block and the
\* submission flag for it is not set; when not due it returns no target
\* slot; and it changes neither the record nor the disk.
C13_BalanceDuePredicate ==
    [][(ProcessStep /\ call'.checked # "none")
       => /\ BalanceChecked(call') => (call'.balanceDue <=> BalanceUpdateNeeded(call'.sn))
          /\ ~call'.balanceDue => call'.balanceSlot = 0
          /\ files' = files /\ checksumTable' = checksumTable
          /\ (call'.balanceDue \/ call'.checked = "balance") => Record' = Record]_vars

\* C13's case: a balance update reported due, with its target slot.
C13_Witness ==
    /\ Processed
    /\ call.balanceDue
    /\ BalanceUpdateNeeded(call.sn)
    /\ call.balanceSlot > 0

\* C14 (balance-update target slot): the target slot of a due balance update
\* is floor((blockTime - genesisTime) / secondsPerSlot): the slot whose time
\* span holds the block's timestamp.
C14_BalanceTargetSlot ==
    (Processed /\ call.balanceDue) =>
        LET sinceGenesis == call.sn.HeaderTime - GenesisTime
        IN  /\ call.balanceSlot * SecondsPerSlot <= sinceGenesis
            /\ sinceGenesis < (call.balanceSlot + 1) * SecondsPerSlot

\* C14's case: a due balance update whose block time lies inside a slot, not
\* on its boundary.
C14_Witness ==
    /\ Processed
    /\ call.balanceDue
    /\ (call.sn.HeaderTime - GenesisTime) % SecondsPerSlot # 0
    /\ (call.sn.HeaderTime - GenesisTime) >= SecondsPerSlot

\* intervalsPassed = floor((currentTime - intervalStart) / intervalDuration).
IntervalsPassed(sn) ==
    (GenesisTime + SecondsPerSlot * sn.BeaconSlotNumber - sn.IntervalStart)
        \div sn.IntervalDuration

\* C15 (rewards-interval due predicate): the rewards check reports due
\* exactly when intervalsPassed is at least 1 and the submission flag for
\* the reward index is not set; in particular not when the snapshot's time
\* lies before intervalStart.
C15_RewardsDuePredicate ==
    (Processed /\ RewardsChecked(call)) =>
        (call.rewardsDue <=> (IntervalsPassed(call.sn) >= 1 /\ ~call.sn.RewardsSubmitted))

\* The raw slot of the end of the last interval passed: the least slot that
\* starts at or after it.
RawSlot(sn) ==
    LET span == sn.IntervalStart + sn.IntervalDuration * IntervalsPassed(sn) - GenesisTime
    IN  CHOOSE r \in 0..(span + 1) :
            r * SecondsPerSlot >= span /\ (r - 1) * SecondsPerSlot < span

\* C16 (rewards target slot): the target slot of a due rewards submission is
\* the last slot of the epoch of the raw slot: never lower than the raw
\* slot, in the raw slot's epoch, and followed by the first slot of the next
\* epoch.
C16_RewardsTargetSnapsForward ==
    (Processed /\ call.rewardsDue /\ IntervalsPassed(call.sn) >= 1) =>
        LET raw == RawSlot(call.sn)
        IN  /\ call.rewardsSlot
                   = (raw \div SlotsPerEpoch) * SlotsPerEpoch + (SlotsPerEpoch - 1)
            /\ call.rewardsSlot >= raw
            /\ call.rewardsSlot \div SlotsPerEpoch = raw \div SlotsPerEpoch
            /\ (call.rewardsSlot + 1) % SlotsPerEpoch = 0

\* C16's case: a due rewards submission whose interval ends inside a slot and
\* whose raw slot is not the last of its epoch.
C16_Witness ==
    /\ Processed
    /\ call.rewardsDue
    /\ IntervalsPassed(call.sn) >= 1
    /\ (call.sn.IntervalStart + call.sn.IntervalDuration * IntervalsPassed(call.sn)
           - GenesisTime) % SecondsPerSlot # 0
    /\ call.rewardsSlot > RawSlot(call.sn)

\* ----------------------------------------------------------- record claims

\* An advance request: an invocation that found nothing due and so asked for
\* an update to the latest finalized slot.
AdvanceRequested(c) ==
    /\ c.checked = "rewards"
    /\ c.fails \in {"none", "state", "noBlock", "update"}
    /\ ~c.balanceDue /\ ~c.rewardsDue

\* C17 (monotonic advance): no invocation lowers lastProcessedSlot; an
\* advance request to a slot below the slot already processed, or equal to
\* the pending slot, leaves the record as it is, fetches no state (a fetch
\* that would fail is not made) and returns false without error.
C17_MonotonicAdvance ==
    [][ProcessStep
       => /\ Record'.LastProcessedSlot >= Record.LastProcessedSlot
          /\ (/\ AdvanceRequested(call')
              /\ \/ call'.finalized < Record.LastProcessedSlot
                 \/ call'.finalized = Record.PendingSlot)
             => /\ Record' = Record
                /\ call'.kind = "ok"
                /\ ~call'.started]_vars

\* C17's case: a request for a slot below the processed one, made while the
\* state of that slot could not have been fetched, was skipped.
C17_Witness ==
    /\ Processed
    /\ AdvanceRequested(call)
    /\ call.fails = "state"
    /\ call.finalized < Record.LastProcessedSlot
    /\ Record.Folded > 0
    /\ call.kind = "ok"

Ordered(rec) ==
    rec.StartSlot <= rec.LastProcessedSlot /\ rec.LastProcessedSlot <= rec.PendingSlot

\* C18 (record ordering invariant): the manager's record, and every record a
\* recover or generateRecordForSlot returns, satisfies
\* startSlot <= lastProcessedSlot <= pendingSlot.
C18_RecordOrdering ==
    /\ Ordered(Record)
    /\ call.rec # <<>> => Ordered(call.rec[1])

\* C18's case: a record that had been advanced was recovered from its
\* checkpoint.
C18_Witness ==
    /\ Recovered
    /\ call.kind = "record"
    /\ call.filename # <<>>
    /\ call.rec[1].LastProcessedSlot > call.rec[1].StartSlot
    /\ Record.LastProcessedSlot > Record.StartSlot

\* The entries whose slot is at most the target slot.
PriorCheckpoints(target) == {i \in EntryLines : EntrySlot(i) <= target}

\* C19 (resume from the closest prior checkpoint): generateRecordForSlot(T)
\* resumes from the newest catalog entry whose slot is at most T, or from a
\* fresh record at the manager's start slot when there is none, and returns
\* a record whose lastProcessedSlot is T.
C19_ResumeFromClosestCheckpoint ==
    (/\ pc = "returned"
     /\ call.op = "generate"
     /\ call.fails = "none"
     /\ faults = 0
     /\ checksumTable.exists)
    => /\ call.kind = "record"
       /\ call.rec # <<>>
       /\ call.rec[1].LastProcessedSlot = call.targetSlot
       /\ IF PriorCheckpoints(call.targetSlot) # {}
          THEN call.filename = EntryFilename(Newest(PriorCheckpoints(call.targetSlot)))
          ELSE call.filename = <<>> /\ call.rec[1].StartSlot = call.startSlot

\* C20 (parse errors skip the candidate): a recover over a catalog that
\* holds a line without exactly two fields, or with a file name that yields
\* no slot, still returns a record: the newest valid candidate, or a fresh
\* record when there is none.
C20_ParseErrorsSkipCandidate ==
    (/\ Recovered
     /\ checksumTable.exists
     /\ MalformedLines # {})
    => /\ call.kind = "record"
       /\ Candidates(call.startSlot, call.targetSlot) = {}
             => call.rec = <<NewRollingRecord(call.startSlot)>>

\* ------------------------------------------------------ error-path claims

\* C21 (missing catalog): a recover made while the catalog file does not
\* exist returns, without error, a fresh record starting at startSlot.
C21_MissingCatalogFresh ==
    (Recovered /\ ~checksumTable.exists)
    => /\ call.kind = "record"
       /\ call.rec = <<NewRollingRecord(call.startSlot)>>

Saved == pc = "returned" /\ call.op = "save"
\* The last line written to the catalog: the line before the final newline.
LastWritten == Len(checksumTable.lines) - 1

\* C22 (write failures are propagated): a save returns success only when the
\* checkpoint file holds the record and the catalog ends in the line of that
\* file, newline included.
C22_SaveSuccessMeansWritten ==
    (Saved /\ call.kind = "ok")
    => /\ call.filename \in DOMAIN files
       /\ Complete(files[call.filename])
       /\ checksumTable.exists
       /\ LastWritten \in EntryLines
       /\ checksumTable.lines[Len(checksumTable.lines)] = <<>>
       /\ EntryFilename(LastWritten) = call.filename
       /\ EntryIntact(LastWritten)

\* C23 (no condition terminates the host): every call of the manager ends by
\* returning a value or an error, never by aborting the process.
C23_NoProcessAbort == call.kind # "panic"

CidReturned == pc = "returned" /\ call.op = "cid"

C25_ScanIndexDecreases ==
    (Recovered /\ checksumTable.exists)
    => /\ call.examined # <<>> => call.examined[1] = Len(checksumTable.lines) - 1
       /\ \A k \in 1..Len(call.examined) :
              /\ call.examined[k] \in 0..(Len(checksumTable.lines) - 1)
              /\ k > 1 => call.examined[k] < call.examined[k - 1]

\* A call for which the state of the requested slot was fetched and the
\* fetch failed: an advance beyond the pending slot, or a record build.
FetchFailed(c, rec) ==
    /\ c.fails \in {"state", "noBlock"}
    /\ \/ c.op = "generate"
       \/ c.op = "process" /\ c.checked = "rewards" /\ ~c.balanceDue /\ ~c.rewardsDue
             /\ c.finalized > rec.PendingSlot

\* C26 (a failed snapshot retrieval applies nothing): such a call returns an
\* error and no record, and changes neither the manager's record nor the
\* checkpoint files nor the catalog.
C26_FailedFetchAppliesNothing ==
    [][(pc = "idle" /\ pc' = "returned" /\ FetchFailed(call', Record))
       => /\ call'.kind = "error"
          /\ call'.rec = <<>>
          /\ Record' = Record
          /\ files' = files
          /\ checksumTable' = checksumTable]_vars

\* C26's case: an advance beyond the pending slot failed at the fetch, with
\* a checkpoint on disk.
C26_Witness ==
    /\ Processed
    /\ FetchFailed(call, Record)
    /\ call.kind = "error"
    /\ EntryLines # {}

====
